---- MODULE Spec2Model ----
(***************************************************************************)
(* Batched random Othello rollouts (CUDA_enhanced_Othello_Rollouts.ipynb): *)
(* the ray_cast device function, the find_actions and select_and_step      *)
(* kernels and the rollout driver.                                         *)
(*                                                                         *)
(* A board is a function from the 64 cells <<x, y>> (x the first index of  *)
(* the array, y the second) to 0 (empty), 1 or 2 (a player's token).       *)
(* Tuples are 1-indexed in TLA+, so the ray r of the source is <<r[1],     *)
(* r[2]>> here and rays[i] of the source is RAYS[i + 1].                   *)
(* player_status[g][p] is player_status[g][p - 1] of the source.           *)
(*                                                                         *)
(* Spec and FairSpec follow rollout with each kernel launch as one step;   *)
(* TwoRunsSpec follows two calls of rollout under seeds that fix every     *)
(* draw; KernelSpec follows block 0 of one launch of select_and_step with  *)
(* its 8 threads interleaved.                                              *)
(***************************************************************************)
EXTENDS Integers, Sequences, FiniteSets, TLC

\* ------------------------------------------------------------- bounds
\* Number of games of the batch (N_GAMES = 32 in the notebook).
N_GAMES == 2
\* xoroshiro128p_uniform_float32 yields a float32 of [0.0, 1.0); the model
\* keeps MaxDraw + 1 of its values, d standing for d / (MaxDraw + 1):
\* 0 is the draw 0.0, the others are positive.
MaxDraw == 2

Games == 0 .. (N_GAMES - 1)
Draws == 0 .. MaxDraw
\* create_xoroshiro128p_states(8*8*N_GAMES, seed=1): one generator per slot.
Slots == 0 .. (8 * 8 * N_GAMES - 1)
Cells == (0 .. 7) \X (0 .. 7)
Players == {1, 2}

\* ------------------------------------------------------- direction table
RAYS ==
  << <<0, 1>>, <<0, -1>>, <<1, 0>>, <<-1, 0>>,
     <<1, 1>>, <<1, -1>>, <<-1, 1>>, <<-1, -1>> >>

\* --------------------------------------------------------------- ray_cast
\* The while loop of ray_cast, entered at (x, y).
RECURSIVE ray_walk(_, _, _, _, _)
ray_walk(b, x, y, ray, plr) ==
  IF x >= 0 /\ y >= 0 /\ x < 8 /\ y < 8
  THEN IF b[<<x, y>>] = 0 THEN FALSE
       ELSE IF b[<<x, y>>] = plr THEN TRUE
       ELSE ray_walk(b, x + ray[1], y + ray[2], ray, plr)
  ELSE FALSE

\* Mutant of ray_cast: the test of the adjacent cell is dropped.
ray_cast_no_adjacent_test(b, x0, y0, ray, plr) ==
  ray_walk(b, x0 + ray[1], y0 + ray[2], ray, plr)

ray_cast(b, x0, y0, ray, plr) ==
  LET opponent == 3 - plr
      x == x0 + ray[1]
      y == y0 + ray[2]
  IN  IF x < 0 \/ y < 0 \/ x >= 8 \/ y >= 8 THEN FALSE
      ELSE IF b[<<x, y>>] # opponent THEN FALSE
      ELSE ray_walk(b, x + ray[1], y + ray[2], ray, plr)

\* ------------------------------------------------------------ find_actions
\* Mutant of draws_score: the occupancy test is dropped.
draws_score_no_occupancy_test(b, tx, ty, plr) ==
  \E i \in 1 .. 8 : ray_cast(b, tx, ty, RAYS[i], plr)

\* Thread (tx, ty) of find_actions reaches the random draw: the cell is
\* empty and one of the 8 rays hits.
draws_score(b, tx, ty, plr) ==
  /\ b[<<tx, ty>>] = 0
  /\ \E i \in 1 .. 8 : ray_cast(b, tx, ty, RAYS[i], plr)

\* tid = cuda.grid(1): the x coordinate of the thread in the grid.  The block
\* is 8 x 8 and the grid one-dimensional, so ty does not enter.
tid(bx, tx, ty) == tx + bx * 8

\* The generator streams are not computed (xoroshiro128+ works on 128 bits).
\* A seed is given by what its streams yield: a word sd of sets of values,
\* read cyclically, draw n of slot s being a value of sd[((s + n) % Len(sd)) + 1].
\* A set of several values is a draw that the seed leaves open; a seed of
\* singletons fixes every draw.  The state of a generator is its phase
\* n % Len(sd) in the word.
yields(sd, s, n) == sd[((s + n) % Len(sd)) + 1]

stream_values(sd) == UNION { sd[i] : i \in 1 .. Len(sd) }

\* xoroshiro128p_uniform_float32(rng_states, tid) by the threads G that share
\* slot s, whose generator is at phase n: they get the values u and leave the
\* generator at phase n2.  The calls read and write rng_states[s] without
\* synchronisation: the threads read m >= 1 successive states of the stream
\* (v: the values of these states), each state is read by one thread or more,
\* and the threads that read the same state get the same value.  W: the
\* values the threads get, each of them the value of a state or more.
slot_draws(sd, s, n, G, u, n2) ==
  \E W \in { {u[t] : t \in G} } :
    \E m \in Cardinality(W) .. Cardinality(G) :
      /\ n2 = (n + m) % Len(sd)
      /\ \E v \in [0 .. (m - 1) -> W] :
           /\ \A i \in DOMAIN v : v[i] \in yields(sd, s, n + i)
           /\ \A w \in W :
                \E cnt \in { Cardinality({i \in DOMAIN v : v[i] = w}) } :
                  /\ cnt >= 1
                  /\ Cardinality({t \in G : u[t] = w}) >= cnt

\* ---------------------------------------------------------- select_and_step
\* Mutant of argmax_scan: ">=" for ">", the scan keeps the last maximum.
RECURSIVE argmax_scan_keeps_last(_, _, _, _)
argmax_scan_keeps_last(f, i, current_max, current_idx) ==
  IF i = 8 THEN <<current_max, current_idx>>
  ELSE IF f[i] >= current_max
       THEN argmax_scan_keeps_last(f, i + 1, f[i], i)
       ELSE argmax_scan_keeps_last(f, i + 1, current_max, current_idx)

\* The argmax scan "for i in range(8): if f[i] > current_max: ...", from i.
RECURSIVE argmax_scan(_, _, _, _)
argmax_scan(f, i, current_max, current_idx) ==
  IF i = 8 THEN <<current_max, current_idx>>
  ELSE IF f[i] > current_max
       THEN argmax_scan(f, i + 1, f[i], i)
       ELSE argmax_scan(f, i + 1, current_max, current_idx)

\* Phase 1, thread tx: <<row_max[tx], row_max_idx[tx]>>.
row_reduce(probs, tx) ==
  argmax_scan([i \in 0 .. 7 |-> probs[<<tx, i>>]], 0, 0, 0)

row_max(probs) == [tx \in 0 .. 7 |-> row_reduce(probs, tx)[1]]
row_max_idx(probs) == [tx \in 0 .. 7 |-> row_reduce(probs, tx)[2]]

\* Phase 2, thread 0, on the shared arrays that phase 1 filled: the pair
\* <<x_idx, y_idx>> written to actions.
reduce_rows(rmax, ridx) ==
  LET m == argmax_scan(rmax, 0, 0, 0)
  IN  IF m[1] > 0 THEN <<m[2], ridx[m[2]]>> ELSE <<-1, -1>>

\* Mutant of select_action: phase 2 takes the column recorded for row 0.
select_action_wrong_column(probs) ==
  CHOOSE a \in { reduce_rows(rmax, [tx \in 0 .. 7 |-> ridx[0]]) :
                   rmax \in {row_max(probs)}, ridx \in {row_max_idx(probs)} } :
    TRUE

\* The argmax reduction of a block: phase 1 fills row_max and row_max_idx
\* (rmax, ridx: the arrays after the first barrier), phase 2 reads them.
select_action(probs) ==
  CHOOSE a \in { reduce_rows(rmax, ridx) :
                   rmax \in {row_max(probs)}, ridx \in {row_max_idx(probs)} } :
    TRUE

\* The flip loop "while boards[bx, x, y] == opponent", entered at (x, y).
RECURSIVE flip(_, _, _, _, _)
flip(b, x, y, r, plr) ==
  IF b[<<x, y>>] = 3 - plr
  THEN flip([b EXCEPT ![<<x, y>>] = plr], x + r[1], y + r[2], r, plr)
  ELSE b

\* The flip loop run without a hit: it stops at the edge of the board.
RECURSIVE flip_to_edge(_, _, _, _, _)
flip_to_edge(b, x, y, r, plr) ==
  IF x >= 0 /\ y >= 0 /\ x < 8 /\ y < 8 /\ b[<<x, y>>] = 3 - plr
  THEN flip_to_edge([b EXCEPT ![<<x, y>>] = plr], x + r[1], y + r[2], r, plr)
  ELSE b

\* Mutant of step_thread: the flip loop runs whether or not the ray hits.
step_thread_no_hit_test(b, tx, act, plr) ==
  LET r == RAYS[tx + 1]
      b1 == flip_to_edge(b, act[1] + r[1], act[2] + r[2], r, plr)
  IN  IF tx = 0 THEN [b1 EXCEPT ![act] = plr] ELSE b1

\* Mutant of step_thread: only the adjacent token of a hit ray is flipped.
step_thread_flips_one(b, tx, act, plr) ==
  LET r == RAYS[tx + 1]
      b1 == IF ray_cast(b, act[1], act[2], r, plr)
            THEN [b EXCEPT ![<<act[1] + r[1], act[2] + r[2]>>] = plr]
            ELSE b
  IN  IF tx = 0 THEN [b1 EXCEPT ![act] = plr] ELSE b1

\* Thread tx of a block that plays act: its ray, then thread 0's placement.
step_thread(b, tx, act, plr) ==
  LET r == RAYS[tx + 1]
      b1 == IF ray_cast(b, act[1], act[2], r, plr)
            THEN flip(b, act[1] + r[1], act[2] + r[2], r, plr)
            ELSE b
  IN  IF tx = 0 THEN [b1 EXCEPT ![act] = plr] ELSE b1

\* The 8 threads of a block, tx .. 7, one after the other (b1 is the board
\* that thread tx leaves).
RECURSIVE step_threads(_, _, _, _)
step_threads(b, tx, act, plr) ==
  IF tx = 8 THEN b
  ELSE CHOOSE b2 \in { step_threads(b1, tx + 1, act, plr) :
                         b1 \in {step_thread(b, tx, act, plr)} } : TRUE

\* Mutant of step_board: a pass still puts a token on cell (0, 0).
step_board_pass_writes(b, act, plr) ==
  IF act[1] = -1 THEN [b EXCEPT ![<<0, 0>>] = plr]
  ELSE step_threads(b, 0, act, plr)

\* The board of a block after "execute action and update game state".
step_board(b, act, plr) ==
  IF act[1] = -1 THEN b ELSE step_threads(b, 0, act, plr)

\* Mutant of step_status: a pass leaves the flag as it is.
step_status_pass_keeps(st, act, plr) ==
  IF act[1] = -1 THEN st ELSE [st EXCEPT ![plr] = 0]

\* The status pair of a block after the step (written by thread 0).
step_status(st, act, plr) ==
  IF act[1] = -1 THEN [st EXCEPT ![plr] = 1] ELSE [st EXCEPT ![plr] = 0]

\* ------------------------------------------------------------------ rollout
count(b, v) == Cardinality({c \in Cells : b[c] = v})

\* Mutant of winner_of: a draw goes to player 1 (argmax alone).
winner_of_no_draw(b) ==
  IF count(b, 1) >= count(b, 2) THEN 1 ELSE 2

\* np.argmax(scores) + 1, then 0 where the two scores are equal.
winner_of(b) ==
  LET scores == <<count(b, 1), count(b, 2)>>
      w == IF scores[1] >= scores[2] THEN 1 ELSE 2
  IN  IF scores[1] = scores[2] THEN 0 ELSE w

\* Cap of the auxiliary turn counter for a rollout from board b: one more
\* than the turns any rollout takes (C10_TurnBound), so that the counter stays
\* finite whatever the kernels do.
turn_cap(b) == 2 * N_GAMES * count(b, 0) + 3

sum_status(ps) ==
  LET RECURSIVE s(_)
      s(g) == IF g = N_GAMES THEN 0 ELSE ps[g][1] + ps[g][2] + s(g + 1)
  IN  s(0)

\* ------------------------------------------------------------ start boards
\* A full board of tokens laid out from a 5-periodic word, with holes.
Fill(w, holes) ==
  [c \in Cells |-> IF c \in holes THEN 0 ELSE w[((3 * c[1] + c[2]) % 5) + 1]]

Words == { <<1, 1, 1, 1, 2>>, <<1, 2, 1, 2, 2>>, <<2, 2, 1, 2, 1>> }

HoleSets == { {}, {<<0, 0>>}, {<<3, 3>>}, {<<6, 1>>} }

\* A full board of alternating rows of tokens, with holes.
Stripes(holes) ==
  [c \in Cells |-> IF c \in holes THEN 0 ELSE (c[1] % 2) + 1]

StripeHoles == { {}, {<<0, 0>>, <<7, 7>>} }

SmallBoards ==
  { Fill(w, h) : w \in Words, h \in HoleSets }
    \cup { Stripes(h) : h \in StripeHoles }

\* Boards on which a mover has several legal cells at once.
WideBoards ==
  { Fill(<<1, 2, 1, 2, 2>>, {<<2, 5>>, <<5, 2>>}),
    Fill(<<1, 1, 1, 1, 2>>, {<<3, 3>>, <<3, 4>>}) }

\* The initial board layout of the notebook.
Opening ==
  [c \in Cells |->
     IF c \in {<<3, 3>>, <<4, 4>>} THEN 2
     ELSE IF c \in {<<3, 4>>, <<4, 3>>} THEN 1 ELSE 0]

\* ------------------------------------------------------------------- state
VARIABLES
  board,          \* rollout's argument
  planner,        \* rollout's argument
  seed,           \* the seed of rng_states, as the word its streams yield
  rng_states,     \* device array, the phase of each slot's generator
  boards,         \* device array, one board per game
  player_status,  \* device array, one pair of flags per game
  action_probs,   \* device array, one score per game and cell
  actions,        \* shared array of each block, as the last kernel left it
  player,         \* rollout's local
  winner,         \* rollout's result
  turns,          \* auxiliary: loop iterations entered so far
  returned,       \* auxiliary: the outcome vectors of the earlier calls
  pc,
  tpc,            \* block 0 of select_and_step: the position of each thread
  shared,         \* block 0: the shared arrays row_max and row_max_idx
  th,             \* block 0: each thread's locals (act_x, act_y), (x, y)
  touched         \* auxiliary: the board cells each thread has read or written

kernel_vars == << tpc, shared, th, touched >>

vars ==
  << board, planner, seed, rng_states, boards, player_status, action_probs,
     actions, player, winner, turns, returned, pc, tpc, shared, th, touched >>

Threads == 0 .. 7

\* No kernel is followed thread by thread.
NoThreads ==
  /\ tpc = [t \in Threads |-> "off"]
  /\ shared = [row_max |-> [t \in Threads |-> 0],
               row_max_idx |-> [t \in Threads |-> 0]]
  /\ th = [t \in Threads |-> [act |-> <<-1, -1>>, xy |-> <<-1, -1>>]]
  /\ touched = [t \in Threads |-> {}]

Start(b, p, sd) ==
  /\ board = b
  /\ planner = p
  /\ seed = sd
  /\ rng_states = [s \in Slots |-> 0]
  /\ boards = [g \in Games |-> b]
  /\ player_status = [g \in Games |-> <<0, 0>>]
  /\ action_probs = [g \in Games |-> [c \in Cells |-> 0]]
  /\ actions = [g \in Games |-> <<-1, -1>>]
  /\ player = p
  /\ winner = [g \in Games |-> 0]
  /\ turns = 0
  /\ returned = << >>
  /\ pc = "loop"
  /\ NoThreads

\* The runs explored: every draw on the small boards, every positive draw on
\* the wide boards, and the run of equal draws from the opening.
Init ==
  \/ \E b \in SmallBoards, p \in Players : Start(b, p, <<Draws>>)
  \/ \E b \in WideBoards, p \in Players : Start(b, p, <<Draws \ {0}>>)
  \/ \E p \in Players : Start(Opening, p, <<{MaxDraw}>>)

\* while np.sum(player_status.copy_to_host()) < 2*N_GAMES
rollout_loop ==
  /\ pc = "loop"
  /\ IF sum_status(player_status) < 2 * N_GAMES
     THEN /\ turns < turn_cap(board)
          /\ turns' = turns + 1
          /\ pc' = "find"
     ELSE /\ turns' = turns
          /\ pc' = "score"
  /\ UNCHANGED << board, planner, seed, rng_states, boards, player_status,
                  action_probs, actions, player, winner, returned >>
  /\ UNCHANGED kernel_vars

\* find_actions[N_GAMES, (8,8)](rng_states, boards, player, action_probs)
\* drawing: the threads <<bx, <<tx, ty>>>> that reach the draw; used: their
\* slots; u: the value each of them gets; r: the phase each slot is left at.
find_actions ==
  /\ pc = "find"
  /\ \E drawing \in
          { { gc \in Games \X Cells :
                draws_score(boards[gc[1]], gc[2][1], gc[2][2], player) } } :
       \E used \in { { tid(t[1], t[2][1], t[2][2]) : t \in drawing } } :
         \E u \in [drawing -> stream_values(seed)],
            r \in [used -> 0 .. (Len(seed) - 1)] :
           /\ action_probs' =
                [g \in Games |->
                   [c \in Cells |->
                      IF boards[g][c] # 0 THEN 0
                      ELSE IF <<g, c>> \in drawing THEN u[<<g, c>>]
                      ELSE 0]]
           /\ rng_states' =
                [s \in Slots |-> IF s \in used THEN r[s] ELSE rng_states[s]]
           /\ TRUE =
                (\A s \in used :
                   \E G \in { {t \in drawing :
                                 tid(t[1], t[2][1], t[2][2]) = s} } :
                     slot_draws(seed, s, rng_states[s], G, u, r[s]))
  /\ pc' = "select"
  /\ UNCHANGED << board, planner, seed, boards, player_status,
                  actions, player, winner, turns, returned >>
  /\ UNCHANGED kernel_vars

\* select_and_step[N_GAMES, 8](action_probs, boards, player, player_status)
select_and_step ==
  /\ pc = "select"
  /\ \E acts \in {[g \in Games |-> select_action(action_probs[g])]} :
         /\ actions' = acts
         /\ boards' = [g \in Games |-> step_board(boards[g], acts[g], player)]
         /\ player_status' =
              [g \in Games |-> step_status(player_status[g], acts[g], player)]
  /\ pc' = "swap"
  /\ UNCHANGED << board, planner, seed, rng_states, action_probs, player,
                  winner, turns, returned >>
  /\ UNCHANGED kernel_vars

\* Mutant of swap_player: the mover is not swapped.
swap_player_stays ==
  /\ pc = "swap"
  /\ player' = player
  /\ action_probs' = [g \in Games |-> [c \in Cells |-> 0]]
  /\ actions' = [g \in Games |-> <<-1, -1>>]
  /\ pc' = "loop"
  /\ UNCHANGED << board, planner, seed, rng_states, boards, player_status,
                  winner, turns, returned >>
  /\ UNCHANGED kernel_vars

\* player = 3 - player
\* action_probs is scratch: each of its entries is written again by the next
\* find_actions before select_and_step reads it, and the shared pair actions
\* does not outlive its kernel, so the model forgets both here.
swap_player ==
  /\ pc = "swap"
  /\ player' = 3 - player
  /\ action_probs' = [g \in Games |-> [c \in Cells |-> 0]]
  /\ actions' = [g \in Games |-> <<-1, -1>>]
  /\ pc' = "loop"
  /\ UNCHANGED << board, planner, seed, rng_states, boards, player_status,
                  winner, turns, returned >>
  /\ UNCHANGED kernel_vars

\* results, scores, winner; return winner
score_games ==
  /\ pc = "score"
  /\ winner' = [g \in Games |-> winner_of(boards[g])]
  /\ pc' = "done"
  /\ UNCHANGED << board, planner, seed, rng_states, boards, player_status,
                  action_probs, actions, player, turns, returned >>
  /\ UNCHANGED kernel_vars

Next ==
  \/ rollout_loop
  \/ find_actions
  \/ select_and_step
  \/ swap_player
  \/ score_games

Spec == Init /\ [][Next]_vars

\* Kernels and host statements run to completion one after the other.
FairSpec == Spec /\ WF_vars(Next)

\* ----------------------------------------------------------- a second call
\* rollout called once more on the same board and planner, with rng_states
\* created again from the same seed: create_xoroshiro128p_states(.., seed)
\* puts every generator back at the start of its stream.
rollout_again ==
  /\ pc = "done"
  /\ returned = << >>
  /\ returned' = <<winner>>
  /\ rng_states' = [s \in Slots |-> 0]
  /\ boards' = [g \in Games |-> board]
  /\ player_status' = [g \in Games |-> <<0, 0>>]
  /\ player' = planner
  /\ winner' = [g \in Games |-> 0]
  /\ turns' = 0
  /\ pc' = "loop"
  /\ UNCHANGED << board, planner, seed, action_probs, actions >>
  /\ UNCHANGED kernel_vars

\* The seeds of the two-call runs: they fix every draw.
FixedSeeds == { <<{1}, {MaxDraw}>>, <<{MaxDraw}, {1}>>, <<{MaxDraw}>> }

\* Boards on which two legal cells of a mover lie in one row.
RaceBoards == WideBoards \cup { Stripes({<<0, 1>>, <<0, 3>>}) }

TwoRunsInit ==
  \E b \in RaceBoards, p \in Players, sd \in FixedSeeds : Start(b, p, sd)

TwoRunsNext == Next \/ rollout_again

TwoRunsSpec == TwoRunsInit /\ [][TwoRunsNext]_vars

\* ------------------------------------- select_and_step, thread by thread
\* Block bx = 0 of a launch of select_and_step, its 8 threads interleaved.
\* A thread is at "scan" (line 252), at the first or second
\* cuda.syncthreads() ("sync1", "sync2"), in the flip loop ("flip"), before
\* thread 0's final writes ("place") or returned ("done").

\* The cells that ray_cast reads in its while loop, entered at (x, y).
RECURSIVE walk_reads(_, _, _, _, _)
walk_reads(b, x, y, ray, plr) ==
  IF x >= 0 /\ y >= 0 /\ x < 8 /\ y < 8
  THEN IF b[<<x, y>>] = 0 \/ b[<<x, y>>] = plr THEN {<<x, y>>}
       ELSE {<<x, y>>} \cup walk_reads(b, x + ray[1], y + ray[2], ray, plr)
  ELSE {}

\* The cells of the board that ray_cast(b, x0, y0, ray, plr) reads.
ray_reads(b, x0, y0, ray, plr) ==
  LET x == x0 + ray[1]
      y == y0 + ray[2]
  IN  IF x < 0 \/ y < 0 \/ x >= 8 \/ y >= 8 THEN {}
      ELSE IF b[<<x, y>>] # 3 - plr THEN {<<x, y>>}
      ELSE {<<x, y>>} \cup walk_reads(b, x + ray[1], y + ray[2], ray, plr)

\* Mutant of thread_ray: the index is taken modulo 4, two threads per ray.
thread_ray_modulo(tx) == RAYS[(tx % 4) + 1]

\* r = rays[tx]
thread_ray(tx) == RAYS[tx + 1]

\* Mutant of syncthreads: no barrier.
syncthreads_absent(tp, loc) == TRUE

\* cuda.syncthreads() at loc: a thread leaves it once every thread of the
\* block has arrived there (or has gone past it).
syncthreads(tp, loc) ==
  \A t \in Threads :
    tp[t] \in (IF loc = "sync1" THEN {"sync1"} ELSE {})
                \cup {"sync2", "flip", "place", "done"}

\* Where a thread goes when its flip loop is over or was not entered.
after_flip(t) == IF t = 0 THEN "place" ELSE "done"

\* Lines 252-261: the scan of row t, written to the shared arrays.
thread_scan(t) ==
  /\ pc = "select"
  /\ tpc[t] = "scan"
  /\ shared' =
       [shared EXCEPT !.row_max[t] = row_reduce(action_probs[0], t)[1],
                      !.row_max_idx[t] = row_reduce(action_probs[0], t)[2]]
  /\ tpc' = [tpc EXCEPT ![t] = "sync1"]
  /\ UNCHANGED << board, planner, seed, rng_states, boards, player_status,
                  action_probs, actions, player, winner, turns, returned,
                  pc, th, touched >>

\* Lines 262-280: past the first barrier, thread 0 reduces the shared arrays
\* and writes actions; the other threads go on to the second barrier.
thread_reduce(t) ==
  /\ pc = "select"
  /\ tpc[t] = "sync1"
  /\ syncthreads(tpc, "sync1")
  /\ actions' =
       IF t = 0
       THEN [actions EXCEPT
               ![0] = reduce_rows(shared.row_max, shared.row_max_idx)]
       ELSE actions
  /\ tpc' = [tpc EXCEPT ![t] = "sync2"]
  /\ UNCHANGED << board, planner, seed, rng_states, boards, player_status,
                  action_probs, player, winner, turns, returned, pc,
                  shared, th, touched >>

\* Mutant of thread_apply: the flip loop is entered whether or not the ray
\* hits.
thread_apply_no_hit_test(t) ==
  /\ pc = "select"
  /\ tpc[t] = "sync2"
  /\ syncthreads(tpc, "sync2")
  /\ \E act \in {actions[0]} :
       IF act[1] = -1
       THEN /\ player_status' =
                 IF t = 0 THEN [player_status EXCEPT ![0][player] = 1]
                 ELSE player_status
            /\ th' = [th EXCEPT ![t].act = act]
            /\ tpc' = [tpc EXCEPT ![t] = "done"]
            /\ UNCHANGED touched
       ELSE /\ th' = [th EXCEPT
                        ![t] = [act |-> act,
                                xy |-> <<act[1] + thread_ray(t)[1],
                                         act[2] + thread_ray(t)[2]>>]]
            /\ touched' =
                 [touched EXCEPT
                    ![t] = ray_reads(boards[0], act[1], act[2],
                                     thread_ray(t), player)]
            /\ tpc' =
                 [tpc EXCEPT
                    ![t] = "flip"]
            /\ UNCHANGED player_status
  /\ UNCHANGED << board, planner, seed, rng_states, boards, action_probs,
                  actions, player, winner, turns, returned, pc, shared >>

\* Lines 281-296: past the second barrier the thread reads actions; on the
\* sentinel it returns (thread 0 sets the flag), otherwise it casts its ray.
thread_apply(t) ==
  /\ pc = "select"
  /\ tpc[t] = "sync2"
  /\ syncthreads(tpc, "sync2")
  /\ \E act \in {actions[0]} :
       IF act[1] = -1
       THEN /\ player_status' =
                 IF t = 0 THEN [player_status EXCEPT ![0][player] = 1]
                 ELSE player_status
            /\ th' = [th EXCEPT ![t].act = act]
            /\ tpc' = [tpc EXCEPT ![t] = "done"]
            /\ UNCHANGED touched
       ELSE /\ th' = [th EXCEPT
                        ![t] = [act |-> act,
                                xy |-> <<act[1] + thread_ray(t)[1],
                                         act[2] + thread_ray(t)[2]>>]]
            /\ touched' =
                 [touched EXCEPT
                    ![t] = ray_reads(boards[0], act[1], act[2],
                                     thread_ray(t), player)]
            /\ tpc' =
                 [tpc EXCEPT
                    ![t] = IF ray_cast(boards[0], act[1], act[2],
                                       thread_ray(t), player)
                           THEN "flip" ELSE after_flip(t)]
            /\ UNCHANGED player_status
  /\ UNCHANGED << board, planner, seed, rng_states, boards, action_probs,
                  actions, player, winner, turns, returned, pc, shared >>

\* Lines 297-300: one test of the flip loop and, if it holds, one iteration.
thread_flip(t) ==
  /\ pc = "select"
  /\ tpc[t] = "flip"
  /\ touched' = [touched EXCEPT ![t] = @ \cup {th[t].xy}]
  /\ IF boards[0][th[t].xy] = 3 - player
     THEN /\ boards' = [boards EXCEPT ![0][th[t].xy] = player]
          /\ th' = [th EXCEPT
                      ![t].xy = <<@[1] + thread_ray(t)[1],
                                  @[2] + thread_ray(t)[2]>>]
          /\ UNCHANGED tpc
     ELSE /\ tpc' = [tpc EXCEPT ![t] = after_flip(t)]
          /\ UNCHANGED << boards, th >>
  /\ UNCHANGED << board, planner, seed, rng_states, player_status,
                  action_probs, actions, player, winner, turns, returned,
                  pc, shared >>

\* Lines 302-304: thread 0 places the token and clears the flag.
thread_place ==
  /\ pc = "select"
  /\ tpc[0] = "place"
  /\ boards' = [boards EXCEPT ![0][th[0].act] = player]
  /\ player_status' = [player_status EXCEPT ![0][player] = 0]
  /\ touched' = [touched EXCEPT ![0] = @ \cup {th[0].act}]
  /\ tpc' = [tpc EXCEPT ![0] = "done"]
  /\ UNCHANGED << board, planner, seed, rng_states, action_probs, actions,
                  player, winner, turns, returned, pc, shared, th >>

\* The launches followed: select_and_step of turn 1 on these boards, with
\* the seeds that Init gives them.
LaunchInputs ==
  (WideBoards \X {<<Draws \ {0}>>})
    \cup ({Opening} \X {<<{MaxDraw}>>})
    \cup ({Fill(<<1, 1, 1, 1, 2>>, {<<0, 0>>}), Stripes({})} \X {<<Draws>>})

\* What the shared arrays of the block hold at the launch: they are not
\* initialised.
Uninitialised ==
  { [row_max |-> 0, row_max_idx |-> 0, actions |-> <<-1, -1>>],
    [row_max |-> MaxDraw + 1, row_max_idx |-> 7, actions |-> <<7, 7>>] }

\* The state at the launch of select_and_step on turn 1, find_actions having
\* given the scores u to the legal cells (the same in every game).
KernelInit ==
  \E bs \in LaunchInputs, p \in Players, gb \in Uninitialised :
    \E u \in [ {c \in Cells : draws_score(bs[1], c[1], c[2], p)}
                 -> stream_values(bs[2]) ] :
      /\ board = bs[1]
      /\ planner = p
      /\ seed = bs[2]
      /\ rng_states = [s \in Slots |-> 0]
      /\ boards = [g \in Games |-> bs[1]]
      /\ player_status = [g \in Games |-> <<0, 0>>]
      /\ action_probs =
           [g \in Games |-> [c \in Cells |-> IF c \in DOMAIN u THEN u[c] ELSE 0]]
      /\ actions = [g \in Games |-> gb.actions]
      /\ player = p
      /\ winner = [g \in Games |-> 0]
      /\ turns = 1
      /\ returned = << >>
      /\ pc = "select"
      /\ tpc = [t \in Threads |-> "scan"]
      /\ shared = [row_max |-> [t \in Threads |-> gb.row_max],
                   row_max_idx |-> [t \in Threads |-> gb.row_max_idx]]
      /\ th = [t \in Threads |-> [act |-> <<-1, -1>>, xy |-> <<-1, -1>>]]
      /\ touched = [t \in Threads |-> {}]

KernelNext ==
  \/ \E t \in Threads : thread_scan(t)
  \/ \E t \in Threads : thread_reduce(t)
  \/ \E t \in Threads : thread_apply(t)
  \/ \E t \in Threads : thread_flip(t)
  \/ thread_place

KernelSpec == KernelInit /\ [][KernelNext]_vars

\* ==================================================================== claims
\* The cell j steps from cell a along ray r.
Along(a, r, j) == <<a[1] + j * r[1], a[2] + j * r[2]>>

\* The maximal run of opponent tokens that starts next to a along r.
OpponentRun(b, a, r, plr) ==
  { Along(a, r, j) :
      j \in { k \in 1 .. 7 :
                \A i \in 1 .. k :
                  Along(a, r, i) \in Cells /\ b[Along(a, r, i)] = 3 - plr } }

\* A capturing line: a token of the mover on the board k >= 2 steps away,
\* and only opponent tokens on the k - 1 >= 1 cells before it.
Captures(b, a, r, plr) ==
  \E k \in 2 .. 7 :
    /\ Along(a, r, k) \in Cells
    /\ b[Along(a, r, k)] = plr
    /\ \A i \in 1 .. (k - 1) : b[Along(a, r, i)] = 3 - plr

Legal(b, c, plr) == b[c] = 0 /\ \E i \in 1 .. 8 : Captures(b, c, RAYS[i], plr)

NoLegalMove(b, plr) == \A c \in Cells : ~Legal(b, c, plr)

Sentinel == <<-1, -1>>

\* C1: on every board a kernel is launched on, for every origin cell, every
\* direction and each mover, ray_cast is true exactly when a run of one or
\* more opponent tokens starting next to the origin stays on the board and is
\* immediately followed by a token of the mover.
C1_RayCastIffCapturingLine ==
  pc = "find" =>
    \A b \in {boards[g] : g \in Games} :
      \A c \in Cells, i \in 1 .. 8, plr \in Players :
        ray_cast(b, c[1], c[2], RAYS[i], plr) <=> Captures(b, c, RAYS[i], plr)

\* C1 witness: a board with a hit over a run of two or more tokens, a run of
\* opponent tokens that reaches the edge, and a run that ends on an empty cell.
C1_Witness ==
  /\ pc = "find"
  /\ \E c \in Cells, i \in 1 .. 8, plr \in Players :
       /\ ray_cast(boards[0], c[1], c[2], RAYS[i], plr)
       /\ Cardinality(OpponentRun(boards[0], c, RAYS[i], plr)) >= 2
  /\ \E c \in Cells, i \in 1 .. 8, plr \in Players :
       LET n == Cardinality(OpponentRun(boards[0], c, RAYS[i], plr))
       IN  /\ n >= 1
           /\ Along(c, RAYS[i], n + 1) \notin Cells
           /\ ~ray_cast(boards[0], c[1], c[2], RAYS[i], plr)
  /\ \E c \in Cells, i \in 1 .. 8, plr \in Players :
       LET n == Cardinality(OpponentRun(boards[0], c, RAYS[i], plr))
       IN  /\ n >= 1
           /\ Along(c, RAYS[i], n + 1) \in Cells
           /\ boards[0][Along(c, RAYS[i], n + 1)] = 0
           /\ ~ray_cast(boards[0], c[1], c[2], RAYS[i], plr)

\* C2: after find_actions has run for the mover, a cell's score is strictly
\* positive exactly when the cell is empty and ray_cast holds for the mover in
\* one of the 8 directions.
C2_ScorePositiveIffLegal ==
  pc = "select" =>
    \A g \in Games, c \in Cells :
      action_probs[g][c] > 0
        <=> /\ boards[g][c] = 0
            /\ \E i \in 1 .. 8 : ray_cast(boards[g], c[1], c[2], RAYS[i], player)

\* C3: after select_and_step, a game's action is the sentinel (-1, -1) exactly
\* when all of its 64 scores are 0; otherwise it is a cell whose score is
\* positive, is the greatest of the 64 scores, and is the column that phase 1
\* recorded for its row.
C3_SelectsMaximum ==
  pc = "swap" =>
    \A g \in Games :
      LET P == action_probs[g]
          a == actions[g]
      IN  /\ a = Sentinel <=> \A c \in Cells : P[c] = 0
          /\ a # Sentinel =>
               /\ a \in Cells
               /\ P[a] > 0
               /\ \A c \in Cells : P[c] <= P[a]
               /\ \A j \in 0 .. 7 : P[<<a[1], j>>] = P[a] => j >= a[2]

\* C3 witness: a game whose scores hold two different positive values, with
\* a cell selected.
C3_Witness ==
  /\ pc = "swap"
  /\ \E g \in Games :
       /\ actions[g] # Sentinel
       /\ \E c, d \in Cells :
            /\ 0 < action_probs[g][c]
            /\ action_probs[g][c] < action_probs[g][d]
            /\ c[1] < d[1]

\* C4: when select_and_step selects a cell, the cell then holds the mover's
\* token and, in each direction where ray_cast held on the board before the
\* step, every opponent token between the cell and the closing token of the
\* mover has become the mover's.
C4_PlacesAndFlips ==
  [][ pc = "select" =>
        \A g \in Games :
          LET a == actions'[g]
          IN  a # Sentinel =>
                /\ boards'[g][a] = player
                /\ \A i \in 1 .. 8 :
                     ray_cast(boards[g], a[1], a[2], RAYS[i], player) =>
                       \A c \in OpponentRun(boards[g], a, RAYS[i], player) :
                         boards'[g][c] = player ]_vars

\* C4 witness: the first step of a game took a cell that captures in two
\* directions, one of them over two or more tokens, and they are all the
\* mover's now.
C4_Witness ==
  /\ pc = "swap"
  /\ turns = 1
  /\ \E g \in Games :
       LET a == actions[g]
       IN  /\ a # Sentinel
           /\ boards[g][a] = player
           /\ \E i, j \in 1 .. 8 :
                /\ i # j
                /\ Captures(board, a, RAYS[i], player)
                /\ Captures(board, a, RAYS[j], player)
                /\ Cardinality(OpponentRun(board, a, RAYS[i], player)) >= 2
                /\ \A c \in OpponentRun(board, a, RAYS[i], player)
                           \cup OpponentRun(board, a, RAYS[j], player) :
                     boards[g][c] = player

\* C5: a step changes, on a game's board, only the selected cell and the
\* opponent tokens of the capturing lines from it; a game whose block selects
\* nothing keeps its board whatever the other games do.
C5_ChangesOnlyCapturedCells ==
  [][ pc = "select" =>
        \A g \in Games, c \in Cells :
          boards'[g][c] # boards[g][c] =>
            LET a == actions'[g]
            IN  /\ a # Sentinel
                /\ \/ c = a
                   \/ \E i \in 1 .. 8 :
                        /\ Captures(boards[g], a, RAYS[i], player)
                        /\ c \in OpponentRun(boards[g], a, RAYS[i], player) ]_vars

\* C5 witness: one game has played while another has kept its board, and the
\* played board holds an opponent token next to the played cell.
C5_Witness ==
  /\ pc = "swap"
  /\ turns = 1
  /\ \E g, h \in Games :
       /\ actions[g] # Sentinel
       /\ boards[g] # board
       /\ boards[h] = board
       /\ \E i \in 1 .. 8 :
            /\ Along(actions[g], RAYS[i], 1) \in Cells
            /\ boards[g][Along(actions[g], RAYS[i], 1)] = 3 - player

\* C6: if the mover has no legal move in a game, its scores are all 0; and
\* if a game's scores are all 0, select_and_step leaves every cell of its
\* board as it was and sets the mover's flag of that game to 1.
C6_PassKeepsBoard ==
  [][ pc = "select" =>
        \A g \in Games :
          /\ NoLegalMove(boards[g], player) =>
               \A c \in Cells : action_probs[g][c] = 0
          /\ (\A c \in Cells : action_probs[g][c] = 0) =>
               /\ boards'[g] = boards[g]
               /\ player_status'[g][player] = 1 ]_vars

\* C6 witness: a mover without a legal move on a board with an empty cell
\* has passed, its flag having been 0 or reset before.
C6_Witness ==
  /\ pc = "swap"
  /\ \E g \in Games :
       /\ actions[g] = Sentinel
       /\ NoLegalMove(boards[g], player)
       /\ \E c \in Cells : boards[g][c] = 0
       /\ player_status[g][player] = 1

\* C7: whenever rollout's loop has exited, every game is terminal: neither
\* player has a legal move on its final board.
C7_ExitMeansTerminal ==
  pc \in {"score", "done"} =>
    \A g \in Games, plr \in Players : NoLegalMove(boards[g], plr)

\* C8: the outcome of a game is 1 if its final board holds more tokens of
\* player 1 than of player 2, 2 if it holds more of player 2, and 0 exactly
\* when the two counts are equal.
C8_OutcomeByCount ==
  pc = "done" =>
    \A g \in Games :
      LET n1 == Cardinality({c \in Cells : boards[g][c] = 1})
          n2 == Cardinality({c \in Cells : boards[g][c] = 2})
      IN  /\ winner[g] = 1 <=> n1 > n2
          /\ winner[g] = 2 <=> n2 > n1
          /\ winner[g] = 0 <=> n1 = n2

\* C8 witness: a batch returned with a drawn game on a board that was played
\* on and a game that a player won.
C8_Witness ==
  /\ pc = "done"
  /\ \E g, h \in Games :
       /\ winner[g] = 0
       /\ boards[g] # board
       /\ winner[h] # 0

C10_AtMost60Turns == turns <= 60

\* C10, amended: the loop runs at most 2 * N_GAMES * E + 2 turns, E being the
\* number of empty cells of the starting board.
C10_TurnBound ==
  turns <= 2 * N_GAMES * Cardinality({c \in Cells : board[c] = 0}) + 2

\* C10 witness: a rollout from the opening has returned after more than 60
\* turns.
C10_Witness ==
  /\ pc = "done"
  /\ board = Opening
  /\ turns > 60

\* C11: when several cells of a game share the greatest positive score, the
\* selected cell is the first of them in row-major order: no cell of an
\* earlier row, and no cell of the same row at a lower column, has that score.
C11_FirstInRowMajor ==
  pc = "swap" =>
    \A g \in Games :
      LET P == action_probs[g]
          a == actions[g]
      IN  a # Sentinel =>
            \A c \in Cells :
              P[c] = P[a] =>
                \/ a[1] < c[1]
                \/ a[1] = c[1] /\ a[2] <= c[2]

\* C11 witness: a selection among two cells of one row that tie on the
\* maximum, and a selection among two cells of different rows that tie.
C11_Witness ==
  /\ pc = "swap"
  /\ \E g \in Games, c \in Cells :
       /\ actions[g] # Sentinel
       /\ c[1] = actions[g][1]
       /\ c[2] > actions[g][2]
       /\ action_probs[g][c] = action_probs[g][actions[g]]
  /\ \E g \in Games, c \in Cells :
       /\ actions[g] # Sentinel
       /\ c[1] > actions[g][1]
       /\ action_probs[g][c] = action_probs[g][actions[g]]

\* C12: within one turn, no two threads of find_actions that draw use the
\* same slot of rng_states.
C12_SlotPerThread ==
  pc = "select" =>
    \A t1, t2 \in { gc \in Games \X Cells :
                      draws_score(boards[gc[1]], gc[2][1], gc[2][2], player) } :
      t1 # t2 => tid(t1[1], t1[2][1], t1[2][2]) # tid(t2[1], t2[2][1], t2[2][2])

\* C13: a second call of rollout on the same board and planner, with the
\* generators seeded again by the same seed, a seed that fixes every draw,
\* returns the outcome vector that the first call returned.
C13_SameSeedSameOutcome ==
  (pc = "done" /\ returned # << >>) => winner = returned[1]

\* C14: once both status flags of a game are 1, no later step of the same
\* rollout changes that game's board or either of its flags.
C14_FinishedGameFrozen ==
  [][ \A g \in Games :
        player_status[g] = <<1, 1>> =>
          /\ boards'[g] = boards[g]
          /\ player_status'[g] = player_status[g] ]_vars

\* C15: a call of rollout on a starting board on which neither player has a
\* legal move runs no turn and returns no outcomes.
C15_RejectsInvalidStart ==
  (NoLegalMove(board, 1) /\ NoLegalMove(board, 2)) =>
    (turns = 0 /\ pc \notin {"score", "done"})

\* C16: the flags are 0 until a player's first turn, and a turn of mover p
\* leaves p's flag of a game at 1 exactly when p had no legal move on that
\* game's board (at 0 when p played, whatever the flag was) and does not
\* change the other player's flag; so at every termination check a flag is 1
\* exactly when its player has had a turn and had no legal move on the most
\* recent one.
C16_FlagMeansNoLegalMove ==
  [][ pc = "select" =>
        \A g \in Games :
          /\ player_status'[g][player] = 1 <=> NoLegalMove(boards[g], player)
          /\ player_status'[g][player] = 0 <=> ~NoLegalMove(boards[g], player)
          /\ player_status'[g][3 - player] = player_status[g][3 - player]
    ]_vars

\* C17: in a block of select_and_step, thread 0 has reduced row_max and
\* row_max_idx only when all 8 threads have written their entries, a thread
\* has read actions only when thread 0 has written it, and what thread 0
\* wrote and every thread read is the action selected from this turn's
\* scores: all threads apply the same action.
C17_BarriersOrderSharedAccess ==
  pc = "select" =>
    \A selected \in {select_action(action_probs[0])} :
      /\ tpc[0] \in {"sync2", "flip", "place", "done"} =>
           /\ \A t \in Threads : tpc[t] # "scan"
           /\ actions[0] = selected
      /\ \A t \in Threads :
           tpc[t] \in {"flip", "place", "done"} =>
             /\ tpc[0] \notin {"scan", "sync1"}
             /\ th[t].act = selected

\* C17 witness: every thread of a block has applied a selected cell that the
\* shared arrays did not hold at the launch.
C17_Witness ==
  /\ \A t \in Threads : tpc[t] = "done"
  /\ th[7].act \in Cells
  /\ th[7].act # <<7, 7>>
  /\ shared.row_max # [t \in Threads |-> 0]
  /\ shared.row_max[7] # MaxDraw + 1

\* C18: in the capture-application part of select_and_step the cells that
\* two different threads read or write are disjoint, the played cell is
\* touched by thread 0's final write alone, and when all threads have
\* returned the board and the flags are those of the threads run one after
\* the other, whatever the interleaving was.
C18_ThreadsTouchDisjointCells ==
  pc = "select" =>
    /\ \A t1, t2 \in Threads :
         t1 # t2 => touched[t1] \cap touched[t2] = {}
    /\ \A t \in Threads :
         (tpc[t] \in {"flip", "place", "done"} /\ th[t].act \in touched[t]) =>
           (t = 0 /\ tpc[0] = "done")
    /\ (\A t \in Threads : tpc[t] = "done") =>
         /\ boards[0] = step_board(board, th[0].act, player)
         /\ player_status[0] = step_status(<<0, 0>>, th[0].act, player)

\* C18 witness: two threads are in their flip loops at the same time, each
\* having turned a token, while thread 0 has not yet placed the token.
C18_Witness ==
  /\ tpc[0] # "done"
  /\ \E t1, t2 \in Threads :
       /\ t1 # t2
       /\ tpc[t1] = "flip"
       /\ tpc[t2] = "flip"
       /\ \E c \in touched[t1] : boards[0][c] # board[c]
       /\ \E c \in touched[t2] : boards[0][c] # board[c]

\* C19: every cell of every board is 0, 1 or 2 throughout a rollout; no
\* step empties an occupied cell; a turn in which a game's mover plays takes
\* exactly one from that game's number of empty cells, and a turn in which
\* it passes leaves the number as it was.
C19_OccupancyGrows ==
  /\ [](\A g \in Games, c \in Cells : boards[g][c] \in {0, 1, 2})
  /\ [][ \A g \in Games :
           /\ \A c \in Cells : boards[g][c] # 0 => boards'[g][c] # 0
           /\ IF pc = "select"
              THEN Cardinality({c \in Cells : boards'[g][c] = 0})
                     = Cardinality({c \in Cells : boards[g][c] = 0})
                         - (IF actions'[g] # Sentinel THEN 1 ELSE 0)
              ELSE boards'[g] = boards[g] ]_vars

\* C19 witness: on one turn a game has played, capturing tokens, and
\* another has passed on a board with an empty cell.
C19_Witness ==
  /\ pc = "swap"
  /\ turns = 1
  /\ \E g, h \in Games :
       /\ actions[g] # Sentinel
       /\ Cardinality({c \in Cells : boards[g][c] # board[c]}) >= 3
       /\ Cardinality({c \in Cells : boards[g][c] = 0})
            = Cardinality({c \in Cells : board[c] = 0}) - 1
       /\ actions[h] = Sentinel
       /\ boards[h] = board
       /\ \E c \in Cells : boards[h][c] = 0

\* C20: one mover serves every game of the batch, and the mover of turn k
\* is the starting player when k is odd and the other player when k is even,
\* whether or not games passed on earlier turns; between turns the mover is
\* already that of the next turn.
C20_MoverAlternates ==
  /\ pc \in {"find", "select", "swap"} =>
       player = (IF turns % 2 = 1 THEN planner ELSE 3 - planner)
  /\ pc \in {"loop", "score", "done"} =>
       player = (IF turns % 2 = 0 THEN planner ELSE 3 - planner)

\* C20 witness: turn 4 is under way, the mover of turn 3 having passed in
\* one game and played in another.
C20_Witness ==
  /\ pc = "find"
  /\ turns = 4
  /\ player = 3 - planner
  /\ \E g, h \in Games :
       /\ player_status[g][3 - player] = 1
       /\ player_status[h][3 - player] = 0
       /\ boards[h] # boards[g]

\* C21: a thread is in the flip loop of select_and_step only if its ray is
\* a capturing line of the board at the launch, and the cell the loop is
\* about to read is on the 8x8 board, on that line: an opponent token of the
\* run, or the mover's token that closes the run, on which the loop stops.
\* No thread has read or written a cell outside the board.
C21_FlipStaysOnBoard ==
  pc = "select" =>
    /\ \A t \in Threads : touched[t] \subseteq Cells
    /\ \A t \in Threads :
         tpc[t] = "flip" =>
           /\ th[t].act \in Cells
           /\ Captures(board, th[t].act, RAYS[t + 1], player)
           /\ th[t].xy \in Cells
           /\ \E n \in {Cardinality(OpponentRun(board, th[t].act,
                                                RAYS[t + 1], player))} :
                \E j \in 1 .. (n + 1) :
                  /\ th[t].xy = Along(th[t].act, RAYS[t + 1], j)
                  /\ boards[0][th[t].xy] = (IF j = n + 1 THEN player
                                            ELSE 3 - player)

\* C21 witness: a flip loop has turned two or more tokens and stands on the
\* closing token of the mover, at the edge of the board.
C21_Witness ==
  /\ pc = "select"
  /\ \E t \in Threads :
       /\ tpc[t] = "flip"
       /\ boards[0][th[t].xy] = player
       /\ Cardinality({c \in touched[t] : boards[0][c] # board[c]}) >= 2
       /\ th[t].xy[1] \in {0, 7} \/ th[t].xy[2] \in {0, 7}

====
